---- MODULE Spec2Model ----
(***************************************************************************)
(* Model of src/code/main.py: DependencyVisualizer, stage 2 (data          *)
(* collection).  One run of DependencyVisualizer.run is a state machine:   *)
(* validate_arguments, print_configuration, get_direct_dependencies (from  *)
(* a fixture file or from the npm registry), print_direct_dependencies,    *)
(* completion line.                                                        *)
(*                                                                         *)
(* Python strings given on the command line are sequences of one-character *)
(* strings, so that str.strip() and f-string concatenation are computed.   *)
(* Decoded JSON values are tagged records; a dict keeps its keys in        *)
(* decoding (insertion) order.  Python exceptions are records carrying the *)
(* exception class; the message of an Exception raised by the program is   *)
(* identified by the source line of its template.                          *)
(***************************************************************************)
EXTENDS Integers, Sequences, FiniteSets, TLC

VARIABLES args, source_exists, pc, errors, out, requested, opened, io_error,
          data, package_info, dependencies, failure, exit_code

vars == <<args, source_exists, pc, errors, out, requested, opened, io_error,
          data, package_info, dependencies, failure, exit_code>>

-----------------------------------------------------------------------------
(* Bounds of the model *)

\* largest number of version keys in a registry document's "versions"
MaxVersions == 2
\* largest number of entries in a "dependencies" mapping
MaxDeps == 2

-----------------------------------------------------------------------------
(* Python strings *)

Whitespace == {" "}

RECURSIVE LStrip(_)
LStrip(s) == IF s # <<>> /\ Head(s) \in Whitespace THEN LStrip(Tail(s)) ELSE s

RECURSIVE RStrip(_)
RStrip(s) ==
    IF s # <<>> /\ s[Len(s)] \in Whitespace
    THEN RStrip(SubSeq(s, 1, Len(s) - 1))
    ELSE s

\* str.strip()
Strip(s) == RStrip(LStrip(s))

\* truthiness of a str: non-empty
Truthy(s) == s # <<>>

\* the literal "https://registry.npmjs.org" of line 84
NpmRegistry ==
    << "h","t","t","p","s",":","/","/","r","e","g","i","s","t","r","y",
       ".","n","p","m","j","s",".","o","r","g" >>

\* f"{base}/{name}"
UrlJoin(base, name) == base \o <<"/">> \o name

-----------------------------------------------------------------------------
(* Decoded JSON values *)

Null == [tag |-> "null"]
Str(s) == [tag |-> "str", s |-> s]
\* a list of n nulls
List(n) == [tag |-> "list", items |-> [i \in 1..n |-> Null]]
\* a dict: keys in insertion order, val the mapping
Dict(keys, val) == [tag |-> "dict", keys |-> keys, val |-> val]

Range(seq) == {seq[i] : i \in 1..Len(seq)}

EmptyDict == Dict(<<>>, [k \in {} |-> Null])

\* d with key k set to v (k not yet in d): insertion at the end
Put(d, k, v) ==
    Dict(Append(d.keys, k), [x \in Range(d.keys) \cup {k} |-> IF x = k THEN v ELSE d.val[x]])

IsDict(v) == v.tag = "dict"

\* bool(v) for a decoded JSON value
TruthyValue(v) ==
    CASE v.tag = "null" -> FALSE
      [] v.tag = "str"  -> v.s # ""
      [] v.tag = "list" -> Len(v.items) > 0
      [] v.tag = "dict" -> Len(v.keys) > 0

-----------------------------------------------------------------------------
(* Python evaluation results: a value or a raised exception *)

Ret(v) == [ok |-> TRUE, v |-> v]

Exc(cls) ==
    [ok |-> FALSE, cls |-> cls, code |-> 0, msg |-> "", arg |-> <<>>,
     cause |-> "", causeMsg |-> ""]

HTTPError(code) == [Exc("HTTPError") EXCEPT !.code = code]

\* raise Exception(f"<template msg> {arg}")
Raise(msg, arg) == [Exc("Exception") EXCEPT !.msg = msg, !.arg = arg]

\* raise Exception(f"<template msg>: {e}") inside "except ... as e"
Wrap(msg, e) == [Exc("Exception") EXCEPT !.msg = msg, !.cause = e.cls, !.causeMsg = e.msg, !.arg = e.arg]

\* key in c, for a str key (no string of the model has a key as a substring;
\* the lists of the model hold no strings equal to a key)
In(key, c) ==
    CASE c.tag = "dict" -> Ret(key \in Range(c.keys))
      [] c.tag = "list" -> Ret(\E i \in 1..Len(c.items) : c.items[i].tag = "str" /\ c.items[i].s = key)
      [] c.tag = "str"  -> Ret(FALSE)
      [] c.tag = "null" -> Exc("TypeError")

\* c[key], for a str key
GetItem(c, key) ==
    CASE c.tag = "dict" -> IF key \in Range(c.keys) THEN Ret(c.val[key]) ELSE Exc("KeyError")
      [] OTHER -> Exc("TypeError")

\* c[k], for a decoded JSON value k used as the key
GetItemByValue(c, k) ==
    CASE c.tag # "dict" -> Exc("TypeError")
      [] k.tag \in {"list", "dict"} -> Exc("TypeError")
      [] k.tag = "str" -> GetItem(c, k.s)
      [] OTHER -> Exc("KeyError")

\* c.get(key, default)
Get(c, key, default) ==
    IF c.tag = "dict"
    THEN Ret(IF key \in Range(c.keys) THEN c.val[key] ELSE default)
    ELSE Exc("AttributeError")

\* list(c.keys())[0]
FirstKey(c) ==
    IF c.tag # "dict" THEN Exc("AttributeError")
    ELSE IF c.keys = <<>> THEN Exc("IndexError")
    ELSE Ret(Str(c.keys[1]))

-----------------------------------------------------------------------------
(* Messages of the exceptions and of the validation errors, by template *)

\* line 67, 70, 73, 76
ErrPackageEmpty == "package name must not be empty"
ErrSourceEmpty == "source (URL or file path) must not be empty"
ErrOutputEmpty == "output file name must not be empty"
ErrTestFileMissing == "test file not found: {source}"

\* line 110, 112, 114, 116, 118
MsgNotInRegistry == "package '{package}' not found in npm registry"
MsgHttp == "HTTP error while requesting package: {e}"
MsgNetwork == "network error: {e}"
MsgParse == "JSON parse error: {e}"
MsgUnknownFetch == "unknown error while getting package information: {e}"

\* line 127, 137, 139, 141
MsgNotInFile == "package '{package}' not found in test file"
MsgFileMissing == "test file not found: {file_path}"
MsgParseFile == "JSON parse error in file: {file_path}"
MsgReadFailure == "error while reading test file: {e}"

\* e.code == 404
NotFoundStatus == 404

-----------------------------------------------------------------------------
(* validate_arguments *)

\* not s or not s.strip()
IsBlank(s) == ~Truthy(s) \/ ~Truthy(Strip(s))

\* validate_arguments with the strip() test of the output name forgotten
ValidateArguments_NoStrip(a, exists) ==
    (IF IsBlank(a.package) THEN <<ErrPackageEmpty>> ELSE <<>>)
 \o (IF IsBlank(a.source) THEN <<ErrSourceEmpty>> ELSE <<>>)
 \o (IF ~Truthy(a.output) THEN <<ErrOutputEmpty>> ELSE <<>>)
 \o (IF a.test_mode /\ ~exists THEN <<ErrTestFileMissing>> ELSE <<>>)

\* validate_arguments(args); exists is the answer of os.path.exists(args.source),
\* consulted in test mode only
ValidateArguments(a, exists) ==
    (IF IsBlank(a.package) THEN <<ErrPackageEmpty>> ELSE <<>>)
 \o (IF IsBlank(a.source) THEN <<ErrSourceEmpty>> ELSE <<>>)
 \o (IF IsBlank(a.output) THEN <<ErrOutputEmpty>> ELSE <<>>)
 \o (IF a.test_mode /\ ~exists THEN <<ErrTestFileMissing>> ELSE <<>>)

-----------------------------------------------------------------------------
(* get_package_info_from_url *)

\* npm_registry_url of line 84
RegistryUrl(package_name, url) == UrlJoin(NpmRegistry, package_name)

\* version selection that ignores dist-tags and always takes the first key
SelectVersion_FirstKey(d) ==
    LET vs == Get(d, "versions", EmptyDict) IN
    IF ~vs.ok THEN vs ELSE FirstKey(vs.v)

\* lines 92-96: latest_version
SelectVersion(d) ==
    LET t == In("dist-tags", d) IN
    IF ~t.ok THEN t
    ELSE IF ~t.v THEN
        LET vs == Get(d, "versions", EmptyDict) IN
        IF ~vs.ok THEN vs ELSE FirstKey(vs.v)
    ELSE
        LET tags == GetItem(d, "dist-tags") IN
        IF ~tags.ok THEN tags
        ELSE LET l == In("latest", tags.v) IN
             IF ~l.ok THEN l
             ELSE IF l.v THEN GetItem(tags.v, "latest")
             ELSE LET vs == Get(d, "versions", EmptyDict) IN
                  IF ~vs.ok THEN vs ELSE FirstKey(vs.v)

\* version lookup that falls back to the first entry of versions when the
\* selected key is missing
VersionData_Fallback(d, latest_version) ==
    LET vs == GetItem(d, "versions") IN
    IF ~vs.ok THEN vs
    ELSE LET e == GetItemByValue(vs.v, latest_version) IN
         IF e.ok \/ e.cls # "KeyError" \/ vs.v.keys = <<>>
         THEN e
         ELSE Ret(vs.v.val[vs.v.keys[1]])

\* line 99: data['versions'][latest_version]
VersionData(d, latest_version) ==
    LET vs == GetItem(d, "versions") IN
    IF ~vs.ok THEN vs ELSE GetItemByValue(vs.v, latest_version)

\* lines 91-106: the body of the try block once the document is decoded
UrlBody(package_name, d) ==
    LET latest_version == SelectVersion(d) IN
    IF ~latest_version.ok THEN latest_version
    ELSE LET version_data == VersionData(d, latest_version.v) IN
         IF ~version_data.ok THEN version_data
         ELSE LET deps == Get(version_data.v, "dependencies", EmptyDict) IN
              IF ~deps.ok THEN deps
              ELSE Ret([name |-> package_name,
                        version |-> latest_version.v,
                        dependencies |-> deps.v])

\* the except clauses with URLError tested before its subclass HTTPError
UrlExcept_UrlErrorFirst(package_name, e) ==
    CASE e.cls \in {"URLError", "HTTPError"} -> Wrap(MsgNetwork, e)
      [] e.cls = "JSONDecodeError" -> Wrap(MsgParse, e)
      [] OTHER -> Wrap(MsgUnknownFetch, e)

\* lines 108-118: the except clauses, in order
UrlExcept(package_name, e) ==
    CASE e.cls = "HTTPError" ->
            IF e.code = NotFoundStatus
            THEN Raise(MsgNotInRegistry, package_name)
            ELSE Wrap(MsgHttp, e)
      [] e.cls = "URLError" -> Wrap(MsgNetwork, e)
      [] e.cls = "JSONDecodeError" -> Wrap(MsgParse, e)
      [] OTHER -> Wrap(MsgUnknownFetch, e)

\* get_package_info_from_url(package_name, url); response is what
\* json.loads(urlopen(...).read().decode()) gives: a document or an exception
GetPackageInfoFromUrl(package_name, url, response) ==
    LET r == IF response.ok THEN UrlBody(package_name, response.v) ELSE response IN
    IF r.ok THEN r ELSE UrlExcept(package_name, r)

-----------------------------------------------------------------------------
(* get_package_info_from_file *)

\* lines 126-134: the body of the try block once the file is decoded
FileBody(package_name, d) ==
    LET c == In(package_name, d) IN
    IF ~c.ok THEN c
    ELSE IF ~c.v THEN Raise(MsgNotInFile, package_name)
    ELSE LET e == GetItem(d, package_name) IN
         IF ~e.ok THEN e
         ELSE LET v == Get(e.v, "version", Str("1.0.0")) IN
              IF ~v.ok THEN v
              ELSE LET deps == Get(e.v, "dependencies", EmptyDict) IN
                   IF ~deps.ok THEN deps
                   ELSE Ret([name |-> package_name,
                             version |-> v.v,
                             dependencies |-> deps.v])

\* lines 136-141: the except clauses, in order
FileExcept(file_path, e) ==
    CASE e.cls = "FileNotFoundError" -> Raise(MsgFileMissing, file_path)
      [] e.cls = "JSONDecodeError" -> Raise(MsgParseFile, file_path)
      [] OTHER -> Wrap(MsgReadFailure, e)

\* get_package_info_from_file(package_name, file_path); read is what
\* json.load(open(file_path)) gives: a document or an exception
GetPackageInfoFromFile(package_name, file_path, read) ==
    LET r == IF read.ok THEN FileBody(package_name, read.v) ELSE read IN
    IF r.ok THEN r ELSE FileExcept(file_path, r)

-----------------------------------------------------------------------------
(* print_direct_dependencies, print_configuration: the lines written to    *)
(* stdout, by kind                                                          *)

\* lines 166-173
PrintConfiguration ==
    << "cfg_title", "cfg_rule", "cfg_package", "cfg_source", "cfg_test_mode",
       "cfg_output", "cfg_ascii_tree", "cfg_rule" >>

\* lines 154-162: the lines printed, and the exception of dependencies.items()
\* when dependencies is truthy and not a dict
PrintDirectDependencies(deps) ==
    IF ~TruthyValue(deps)
    THEN [lines |-> <<"no_dependencies">>, ok |-> TRUE]
    ELSE IF IsDict(deps)
    THEN [lines |-> <<"deps_title", "deps_rule">>
                    \o [i \in 1..Len(deps.keys) |-> "dep_item"]
                    \o <<"deps_rule">>,
          ok |-> TRUE]
    ELSE [lines |-> <<"deps_title", "deps_rule">>, ok |-> FALSE]

-----------------------------------------------------------------------------
(* Inputs: command lines, fixture files, registry responses *)

\* no value yet (Python None of an unset local)
None == [tag |-> "none"]
\* a field that the document does not have
Absent == [tag |-> "absent"]

Packages == { <<>>, <<" ">>, <<"f">>, <<" ", "f">>, <<"h">> }
Sources == { <<>>, <<" ">>, <<"s">>, NpmRegistry }
Outputs == { <<>>, <<" ">>, <<"o">> }

Args == [package : Packages, source : Sources, output : Outputs, test_mode : BOOLEAN]

WithField(d, k, opt) == IF opt = Absent THEN d ELSE Put(d, k, opt)

DepNames == << "a", "b", "c", "d" >>
DepsDict(n) ==
    Dict(SubSeq(DepNames, 1, n), [k \in Range(SubSeq(DepNames, 1, n)) |-> Str("^1.0")])

\* values of a "dependencies" field: null, a list, mappings of 0..MaxDeps entries
DepsValues == {Null, List(1)} \cup {DepsDict(n) : n \in 0..MaxDeps}

\* values of a fixture entry's "version" field
VersionValues == {Null, Str(""), Str("2.0.0")}

FixtureEntries ==
    { WithField(WithField(EmptyDict, "version", v), "dependencies", dp) :
        v \in VersionValues \cup {Absent}, dp \in DepsValues \cup {Absent} }
    \cup {Null, List(0)}

\* decoded fixture files: mappings with and without the package "f", non-mappings
FixtureDocs ==
    { Put(EmptyDict, <<"f">>, e) : e \in FixtureEntries }
    \cup { Put(Put(EmptyDict, <<"g">>, EmptyDict), <<"f">>, e) : e \in FixtureEntries }
    \cup { EmptyDict, Put(EmptyDict, <<"g">>, EmptyDict), Null, List(1) }

\* what open() and json.load() give
FileReads ==
    { Ret(d) : d \in FixtureDocs }
    \cup { Exc(c) : c \in {"FileNotFoundError", "PermissionError",
                          "JSONDecodeError", "UnicodeDecodeError"} }

VersionPool == << "1.0.0", "2.0.0", "3.0.0", "4.0.0" >>
VersionKeys == Range(SubSeq(VersionPool, 1, MaxVersions))

\* sequences of distinct version keys, in any decoding order
KeySeqs ==
    UNION { { ks \in [1..n -> VersionKeys] : \A i, j \in 1..n : i # j => ks[i] # ks[j] } :
            n \in 0..MaxVersions }

VersionEntries ==
    { WithField(EmptyDict, "dependencies", dp) : dp \in DepsValues \cup {Absent} }
    \cup {Null}

VersionsValues ==
    UNION { { Dict(ks, f) : f \in [Range(ks) -> VersionEntries] } : ks \in KeySeqs }
    \cup {Null}

LatestValues == { Str(k) : k \in VersionKeys \cup {"9.9.9"} } \cup {Null, List(0)}

DistTagsValues ==
    { Put(EmptyDict, "latest", l) : l \in LatestValues } \cup {EmptyDict, Null}

\* decoded registry documents
RegistryDocs ==
    { WithField(WithField(EmptyDict, "dist-tags", t), "versions", v) :
        t \in DistTagsValues \cup {Absent}, v \in VersionsValues \cup {Absent} }
    \cup {Null, List(1)}

ErrorStatuses == {NotFoundStatus, 403, 500}

\* what urlopen(), read(), decode() and json.loads() give
Responses ==
    { Ret(d) : d \in RegistryDocs }
    \cup { HTTPError(c) : c \in ErrorStatuses }
    \cup { Exc(c) : c \in {"URLError", "JSONDecodeError", "UnicodeDecodeError",
                          "ConnectionResetError"} }

-----------------------------------------------------------------------------
(* DependencyVisualizer.run *)

Init ==
    /\ args \in Args
    /\ source_exists = "not_checked"
    /\ pc = "validate"
    /\ errors = <<>>
    /\ out = <<>>
    /\ requested = <<>>
    /\ opened = <<>>
    /\ io_error = None
    /\ data = None
    /\ package_info = None
    /\ dependencies = None
    /\ failure = None
    /\ exit_code = -1

\* lines 198-200: except Exception as e: print, sys.exit(1)
Fail(e, printed) ==
    /\ out' = Append(printed, "error")
    /\ failure' = e
    /\ exit_code' = 1
    /\ pc' = "exited"

\* lines 182-187
Validate ==
    /\ pc = "validate"
    /\ \E exists \in BOOLEAN :
        /\ args.source = <<>> => ~exists
        /\ source_exists' = IF ~args.test_mode THEN "not_checked"
                            ELSE IF exists THEN "exists" ELSE "missing"
        /\ LET errs == ValidateArguments(args, exists) IN
            /\ errors' = errs
            /\ IF errs # <<>>
               THEN /\ out' = <<"errors_header">> \o [i \in 1..Len(errs) |-> "error_item"]
                    /\ exit_code' = 1
                    /\ pc' = "exited"
               ELSE /\ pc' = "configure"
                    /\ UNCHANGED <<out, exit_code>>
    /\ UNCHANGED <<args, requested, opened, io_error, data, package_info, dependencies, failure>>

\* line 190
Configure ==
    /\ pc = "configure"
    /\ out' = out \o PrintConfiguration
    /\ pc' = "acquire"
    /\ UNCHANGED <<args, source_exists, errors, requested, opened, io_error, data,
                   package_info, dependencies, failure, exit_code>>

\* lines 145-146, 150, 193 in test mode
AcquireFromFile ==
    /\ pc = "acquire"
    /\ args.test_mode
    /\ \E read \in FileReads :
        LET r == GetPackageInfoFromFile(args.package, args.source, read) IN
        /\ opened' = Append(opened, args.source)
        /\ io_error' = IF read.ok THEN None ELSE read
        /\ data' = IF read.ok THEN read.v ELSE None
        /\ IF r.ok
           THEN /\ package_info' = r.v
                /\ dependencies' = r.v.dependencies
                /\ pc' = "present"
                /\ UNCHANGED <<out, failure, exit_code>>
           ELSE /\ Fail(r, out)
                /\ UNCHANGED <<package_info, dependencies>>
    /\ UNCHANGED <<args, source_exists, errors, requested>>

\* lines 147-148, 150, 193 in registry mode
AcquireFromUrl ==
    /\ pc = "acquire"
    /\ ~args.test_mode
    /\ \E response \in Responses :
        LET r == GetPackageInfoFromUrl(args.package, args.source, response) IN
        /\ requested' = Append(requested, RegistryUrl(args.package, args.source))
        /\ io_error' = IF response.ok THEN None ELSE response
        /\ data' = IF response.ok THEN response.v ELSE None
        /\ IF r.ok
           THEN /\ package_info' = r.v
                /\ dependencies' = r.v.dependencies
                /\ out' = Append(out, "request")
                /\ pc' = "present"
                /\ UNCHANGED <<failure, exit_code>>
           ELSE /\ Fail(r, Append(out, "request"))
                /\ UNCHANGED <<package_info, dependencies>>
    /\ UNCHANGED <<args, source_exists, errors, opened>>

\* line 194
Present ==
    /\ pc = "present"
    /\ LET p == PrintDirectDependencies(dependencies) IN
        IF p.ok
        THEN /\ out' = out \o p.lines
             /\ pc' = "complete"
             /\ UNCHANGED <<failure, exit_code>>
        ELSE Fail(Exc("AttributeError"), out \o p.lines)
    /\ UNCHANGED <<args, source_exists, errors, requested, opened, io_error, data,
                   package_info, dependencies>>

\* line 196 and the normal end of the process
Complete ==
    /\ pc = "complete"
    /\ out' = Append(out, "completion")
    /\ exit_code' = 0
    /\ pc' = "exited"
    /\ UNCHANGED <<args, source_exists, errors, requested, opened, io_error, data,
                   package_info, dependencies, failure>>

Next ==
    \/ Validate
    \/ Configure
    \/ AcquireFromFile
    \/ AcquireFromUrl
    \/ Present
    \/ Complete

Spec == Init /\ [][Next]_vars

-----------------------------------------------------------------------------
(* Vocabulary of the properties *)

\* the error kind that a raised exception stands for: the Exception messages
\* of main.py, named after the taxonomy of the specification; an exception
\* that is not an Exception raised by the program keeps its class name
Kind(e) ==
    CASE e.msg \in {MsgNotInRegistry, MsgNotInFile} -> "PackageNotFoundError"
      [] e.msg = MsgHttp -> "RegistryHttpError"
      [] e.msg = MsgNetwork -> "NetworkError"
      [] e.msg \in {MsgParse, MsgParseFile} -> "ResponseParseError"
      [] e.msg = MsgFileMissing -> "SourceFileNotFoundError"
      [] e.msg \in {MsgUnknownFetch, MsgReadFailure} -> "UnknownFetchError"
      [] OTHER -> e.cls

Resolved == package_info # None
Failed == failure # None
Decoded == data # None

HasKey(d, k) == IsDict(d) /\ k \in Range(d.keys)
Field(d, k) == IF HasKey(d, k) THEN d.val[k] ELSE Absent

\* the registry document has a dist-tags.latest pointer
HasLatest(d) == HasKey(d, "dist-tags") /\ HasKey(d.val["dist-tags"], "latest")
Latest(d) == d.val["dist-tags"].val["latest"]

\* the errors of the blank fields, in the order of validate_arguments
BlankErrors(a) ==
    (IF IsBlank(a.package) THEN <<ErrPackageEmpty>> ELSE <<>>)
 \o (IF IsBlank(a.source) THEN <<ErrSourceEmpty>> ELSE <<>>)
 \o (IF IsBlank(a.output) THEN <<ErrOutputEmpty>> ELSE <<>>)

SomeBlank(a) == IsBlank(a.package) \/ IsBlank(a.source) \/ IsBlank(a.output)

-----------------------------------------------------------------------------
(* Properties *)

\* C1: in test mode, when the fixture file decodes to a mapping that does not
\* have the requested package as a key, the run fails with the
\* PackageNotFoundError kind and exits with code 1.
C1_MissingKeyIsPackageNotFound ==
    (pc = "exited" /\ args.test_mode /\ Decoded /\ IsDict(data)
        /\ args.package \notin Range(data.keys))
    => (Failed /\ Kind(failure) = "PackageNotFoundError" /\ exit_code = 1)

\* the registry document has no versions to choose from
NoVersions(d) == ~HasKey(d, "versions") \/ (IsDict(d.val["versions"]) /\ d.val["versions"].keys = <<>>)

\* C2: in registry mode, a document without dist-tags.latest and without
\* version entries fails with the VersionResolutionError kind and gives no
\* record.
C2_NoVersionIsVersionResolutionError ==
    (pc = "exited" /\ ~args.test_mode /\ Decoded /\ IsDict(data)
        /\ ~HasLatest(data) /\ NoVersions(data))
    => (Failed /\ Kind(failure) = "VersionResolutionError" /\ ~Resolved)

\* C3: in registry mode the single GET goes to <source>/<package>.
C3_RequestAddressedToSource ==
    (~args.test_mode /\ pc \in {"present", "complete", "exited"} /\ errors = <<>>)
    => requested = << UrlJoin(args.source, args.package) >>

\* C4 as stated: whenever a field is blank, validation reports exactly the
\* errors of the blank fields and no other, and the run exits with code 1
\* without a network request or a file read.
C4_OnlyBlankErrors ==
    (pc # "validate" /\ SomeBlank(args))
    => /\ errors = BlankErrors(args)
       /\ pc = "exited" /\ exit_code = 1
       /\ requested = <<>> /\ opened = <<>>

\* C4 as amended: whenever a field is blank, validation reports the errors of
\* the blank fields in the order package, source, output, followed in test
\* mode by the missing-test-file error exactly when os.path.exists(source)
\* is false (always so for the empty source), and no other error; the run
\* prints a header and one line per error and exits with code 1 without a
\* network request or a file read.
C4_BlankErrorsAndMissingFile ==
    (pc # "validate" /\ SomeBlank(args))
    => /\ errors = BlankErrors(args)
                   \o (IF source_exists = "missing" THEN <<ErrTestFileMissing>> ELSE <<>>)
       /\ (args.test_mode /\ args.source = <<>>) => source_exists = "missing"
       /\ ~args.test_mode => source_exists = "not_checked"
       /\ out = <<"errors_header">> \o [i \in 1..Len(errors) |-> "error_item"]
       /\ pc = "exited" /\ exit_code = 1
       /\ requested = <<>> /\ opened = <<>>

C4_Witness ==
    /\ pc = "exited"
    /\ args.test_mode
    /\ args.source = <<" ">>
    /\ IsBlank(args.output)
    /\ errors = <<ErrSourceEmpty, ErrOutputEmpty, ErrTestFileMissing>>

\* the entry of the source document that the record was built from
SourceEntry ==
    IF args.test_mode
    THEN data.val[args.package]
    ELSE data.val["versions"].val[package_info.version.s]

\* C5: every record has a dependencies field that is a mapping; when the
\* source entry's field is omitted, empty or null it is the empty mapping.
C5_DependenciesIsMapping ==
    Resolved
    => /\ IsDict(package_info.dependencies)
       /\ Field(SourceEntry, "dependencies") \in {Absent, Null, EmptyDict}
            => package_info.dependencies = EmptyDict

\* C6: in registry mode the record's version is dist-tags.latest when that
\* exists and the first key of versions in decoding order otherwise; the
\* record is {name: requested name, version: selected key, dependencies:
\* versions[selected key].dependencies, or the empty mapping when absent}.
C6_VersionSelectionPriority ==
    (Resolved /\ ~args.test_mode)
    => /\ package_info.name = args.package
       /\ HasLatest(data) => package_info.version = Latest(data)
       /\ ~HasLatest(data) => package_info.version = Str(data.val["versions"].keys[1])
       /\ HasKey(data.val["versions"], package_info.version.s)
       /\ package_info.dependencies =
            IF HasKey(SourceEntry, "dependencies")
            THEN SourceEntry.val["dependencies"]
            ELSE EmptyDict

C6_Witness ==
    /\ Resolved /\ ~args.test_mode
    /\ HasLatest(data)
    /\ Latest(data) = Str("2.0.0")
    /\ data.val["versions"].keys = <<"1.0.0", "2.0.0">>
    /\ package_info.version = Str("2.0.0")
    /\ package_info.dependencies = DepsDict(1)

\* the kind that the acquisition failure e maps to
ExpectedKind(e) ==
    CASE e.cls = "HTTPError" /\ e.code = 404 -> "PackageNotFoundError"
      [] e.cls = "HTTPError" /\ e.code # 404 -> "RegistryHttpError"
      [] e.cls = "URLError" -> "NetworkError"
      [] e.cls = "JSONDecodeError" -> "ResponseParseError"
      [] OTHER -> "UnknownFetchError"

C8_VersionNeverEmpty ==
    Resolved
    => /\ package_info.version.tag = "str" /\ package_info.version.s # ""
       /\ args.test_mode =>
            package_info.version =
                IF HasKey(SourceEntry, "version")
                THEN SourceEntry.val["version"]
                ELSE Str("1.0.0")

\* the "request" line of get_package_info_from_url, in registry mode
RequestLine == IF args.test_mode THEN <<>> ELSE <<"request">>

\* C9: a finished run is exactly one of: validation failed (errors one per
\* line, exit 1, no configuration block, no acquisition); resolution raised
\* (configuration block, one error line, exit 1, no completion line);
\* resolution succeeded (configuration block, dependency output, completion
\* line, exit 0).
C9_ThreeOutcomes ==
    pc = "exited"
    => \/ /\ errors # <<>>
          /\ out = <<"errors_header">> \o [i \in 1..Len(errors) |-> "error_item"]
          /\ exit_code = 1
          /\ requested = <<>> /\ opened = <<>>
       \/ /\ errors = <<>> /\ ~Resolved
          /\ out = PrintConfiguration \o RequestLine \o <<"error">>
          /\ exit_code = 1
       \/ /\ errors = <<>> /\ Resolved
          /\ out = PrintConfiguration \o RequestLine
                   \o PrintDirectDependencies(dependencies).lines \o <<"completion">>
          /\ exit_code = 0

\* dist-tags.latest names no entry of versions
LatestNotInVersions(d) ==
    /\ HasLatest(d)
    /\ \/ ~HasKey(d, "versions")
       \/ /\ IsDict(d.val["versions"])
          /\ Latest(d).tag = "str"
          /\ ~HasKey(d.val["versions"], Latest(d).s)

\* C10: in registry mode, when dist-tags.latest names a key that versions
\* does not have (or versions is absent), no record is returned, the failure
\* is the catch-all unknown-fetch kind, and the first key of versions is not
\* used instead.
C10_DanglingLatestFails ==
    (~args.test_mode /\ Decoded /\ LatestNotInVersions(data))
    => /\ ~Resolved
       /\ Failed
       /\ Kind(failure) = "UnknownFetchError"
       /\ failure.cause = "KeyError"
       /\ exit_code = 1

C10_Witness ==
    /\ ~args.test_mode /\ Decoded
    /\ LatestNotInVersions(data)
    /\ HasKey(data, "versions")
    /\ data.val["versions"].keys # <<>>
    /\ pc = "exited"
    /\ failure.cause = "KeyError"

====
